---- MODULE Spec2Model ----
(***************************************************************************)
(* TileDesc and TileCombined of wsd/TileDesc.hpp: the tile descriptor, its *)
(* geometry predicates, and the single-tile and combined-tile wire codecs. *)
(*                                                                         *)
(* Text (std::string) is a sequence of one-character strings, so that the  *)
(* decimal formatting of operator<<, std::stoi, the tokenizers and the     *)
(* seekp/tellp arithmetic of the string streams are computed character by  *)
(* character.                                                              *)
(***************************************************************************)
EXTENDS Integers, Sequences, FiniteSets, TLC

VARIABLES pc,      \* position of the driver: which operation ran last
          desc,    \* the TileDesc at hand (Null when there is none)
          other,   \* a second TileDesc, the argument of the geometry predicates
          comb,    \* the TileCombined at hand (Null when there is none)
          tiles,   \* the vector<TileDesc> last handed to TileCombined::create
          origin,  \* the object the text in wire was serialized from
          wire,    \* the message text: output of serialize, input of parse
          exc,     \* how the last operation ended: "none", the message of the
                   \* BadArgumentException thrown, or "std::out_of_range"
          args,    \* the arguments of the last call of TileCombined's constructor
          ret      \* the values returned by the geometry predicates

vars == <<pc, desc, other, comb, tiles, origin, wire, exc, args, ret>>

Null == [null |-> TRUE]

(***************************************************************************)
(* Bounds of the model.                                                    *)
(***************************************************************************)
MaxId == 1        \* ids range over -2..MaxId
MaxTiles == 2     \* longest vector handed to create
MaxCoord == 2     \* tile positions of the geometry predicates are 0..MaxCoord

\* Op applied to the value of v: v is evaluated once, where a LET
\* definition is evaluated again at each of its uses.
With(v, Op(_)) == CHOOSE out \in {Op(x) : x \in {v}} : TRUE

(***************************************************************************)
(* Characters and numbers.                                                 *)
(***************************************************************************)
Digits == <<"0", "1", "2", "3", "4", "5", "6", "7", "8", "9">>

IsDigit(c) == \E i \in 1..10 : Digits[i] = c

DigitVal(c) == (CHOOSE i \in 1..10 : Digits[i] = c) - 1

IsSpace(c) == c = " "

\* operator<<(unsigned): decimal digits, most significant first.
RECURSIVE NatToStr(_)
NatToStr(n) ==
    IF n < 10 THEN <<Digits[n + 1]>>
    ELSE NatToStr(n \div 10) \o <<Digits[(n % 10) + 1]>>

\* operator<<(int)
IntToStr(n) == IF n < 0 THEN <<"-">> \o NatToStr(-n) ELSE NatToStr(n)

RECURSIVE SkipSpace(_, _)
SkipSpace(s, i) ==
    IF i <= Len(s) /\ IsSpace(s[i]) THEN SkipSpace(s, i + 1) ELSE i

\* First index at or after i that holds no digit.
RECURSIVE DigitsEnd(_, _)
DigitsEnd(s, i) ==
    IF i <= Len(s) /\ IsDigit(s[i]) THEN DigitsEnd(s, i + 1) ELSE i

RECURSIVE SkipZeros(_, _, _)
SkipZeros(s, i, e) ==
    IF i < e - 1 /\ s[i] = "0" THEN SkipZeros(s, i + 1, e) ELSE i

\* Value of the digits s[i..j], times sgn (1 or -1).
RECURSIVE DigitsValue(_, _, _, _)
DigitsValue(s, i, j, sgn) ==
    IF j < i THEN 0
    ELSE DigitsValue(s, i, j - 1, sgn) * 10 + sgn * DigitVal(s[j])

\* Whether the digits s[b..e-1], negated when neg, lie outside int
\* (-2147483648..2147483647).
OutOfIntRange(s, b, e, neg) ==
    LET z == SkipZeros(s, b, e)
        n == e - z
    IN  \/ n > 10
        \/ /\ n = 10
           /\ LET hi == DigitsValue(s, z, e - 2, 1)
                  lo == DigitVal(s[e - 1])
              IN  \/ hi > 214748364
                  \/ hi = 214748364 /\ lo > (IF neg THEN 8 ELSE 7)

\* std::stoi(s, &next): leading white space, an optional sign, then digits;
\* std::invalid_argument when there is no digit, std::out_of_range when the
\* value does not fit int. next is the number of characters consumed.
StoiAt(s, neg, b, e) ==
    IF e = b THEN [exc |-> "invalid_argument", value |-> 0, next |-> 0]
    ELSE IF OutOfIntRange(s, b, e, neg)
    THEN [exc |-> "std::out_of_range", value |-> 0, next |-> 0]
    ELSE [exc |-> "none",
          value |-> DigitsValue(s, b, e - 1, IF neg THEN -1 ELSE 1),
          next |-> e - 1]

Stoi(str) ==
    With(str, LAMBDA s :
        With(SkipSpace(s, 1), LAMBDA a :
            With(IF a <= Len(s) /\ s[a] \in {"-", "+"} THEN a + 1 ELSE a,
                 LAMBDA b :
                     With(DigitsEnd(s, b), LAMBDA e :
                         StoiAt(s, a <= Len(s) /\ s[a] = "-", b, e)))))

\* std::stoull(s, &next): as stoi; a '-' sign negates modulo 2^64, which is
\* written here as the negative number with the same two's complement. No
\* text of the model is long enough to leave the range of uint64_t.
StoullAt(s, neg, b, e) ==
    IF e = b THEN [exc |-> "invalid_argument", value |-> 0, next |-> 0]
    ELSE [exc |-> "none",
          value |-> DigitsValue(s, b, e - 1, IF neg THEN -1 ELSE 1),
          next |-> e - 1]

Stoull(str) ==
    With(str, LAMBDA s :
        With(SkipSpace(s, 1), LAMBDA a :
            With(IF a <= Len(s) /\ s[a] \in {"-", "+"} THEN a + 1 ELSE a,
                 LAMBDA b :
                     With(DigitsEnd(s, b), LAMBDA e :
                         StoullAt(s, a <= Len(s) /\ s[a] = "-", b, e)))))

(***************************************************************************)
(* Splitting text.                                                         *)
(***************************************************************************)
\* The pieces of s between the occurrences of the delimiter d, the empty
\* ones included.
SplitAt(s, cuts) ==
    LET Rank(p) == Cardinality({q \in cuts : q < p})
        Cut(k) == CHOOSE p \in cuts : Rank(p) = k
    IN  [k \in 1..(Cardinality(cuts) - 1) |->
            SubSeq(s, Cut(k - 1) + 1, Cut(k) - 1)]

Split(str, d) ==
    With(str, LAMBDA s :
        With({0, Len(s) + 1} \cup {i \in 1..Len(s) : s[i] = d}, LAMBDA cuts :
            SplitAt(s, cuts)))

NonEmptyTokens(ts) == SelectSeq(ts, LAMBDA t : t # <<>>)

RECURSIVE TrimLeft(_)
TrimLeft(s) ==
    IF s # <<>> /\ IsSpace(Head(s)) THEN TrimLeft(Tail(s)) ELSE s

RECURSIVE TrimRight(_)
TrimRight(s) ==
    IF s # <<>> /\ IsSpace(s[Len(s)])
    THEN TrimRight(SubSeq(s, 1, Len(s) - 1)) ELSE s

Trim(s) == TrimRight(TrimLeft(s))

\* Index of the first occurrence of c in s, 0 when there is none
\* (std::string::find_first_of).
RECURSIVE FindFrom(_, _, _)
FindFrom(s, c, i) ==
    IF i > Len(s) THEN 0 ELSE IF s[i] = c THEN i ELSE FindFrom(s, c, i + 1)

FindFirstOf(s, c) == FindFrom(s, c, 1)

\* std::string::substr(pos) with pos counted from 0.
SubstrFrom(s, pos) == SubSeq(s, pos + 1, Len(s))

HasPrefix(s, p) == Len(s) >= Len(p) /\ SubSeq(s, 1, Len(p)) = p

(***************************************************************************)
(* LOOLProtocol and Poco helpers called by TileDesc.hpp.                   *)
(***************************************************************************)
\* LOOLProtocol::tokenize: the words of a message, split at spaces.
tokenize(message) == NonEmptyTokens(Split(message, " "))

\* Poco::StringTokenizer(s, ",", TOK_IGNORE_EMPTY | TOK_TRIM)
StringTokenizer(s) ==
    With(Split(s, ","), LAMBDA parts :
        NonEmptyTokens([i \in 1..Len(parts) |-> Trim(parts[i])]))

\* LOOLProtocol::stringToInteger: std::stoi, false on invalid_argument.
stringToInteger(input) ==
    With(Stoi(input), LAMBDA r :
        [exc |-> IF r.exc = "invalid_argument" THEN "none" ELSE r.exc,
         ok |-> r.exc = "none",
         value |-> r.value])

\* LOOLProtocol::stringToUInt64: std::stoull, false on invalid_argument.
stringToUInt64(input) ==
    With(Stoull(input), LAMBDA r :
        [exc |-> IF r.exc = "invalid_argument" THEN "none" ELSE r.exc,
         ok |-> r.exc = "none",
         value |-> r.value])

\* LOOLProtocol::getTokenUInt64(token, name, value): true when token is
\* name=<unsigned> with nothing after the number. value is written as soon
\* as the number converts (assigned), also when the call returns false.
getTokenUInt64(token, name) ==
    IF \/ Len(token) < Len(name) + 2
       \/ ~HasPrefix(token, name)
       \/ token[Len(name) + 1] # "="
    THEN [ok |-> FALSE, assigned |-> FALSE, value |-> 0]
    ELSE With(Stoull(SubstrFrom(token, Len(name) + 1)), LAMBDA r :
             IF r.exc # "none"
             THEN [ok |-> FALSE, assigned |-> FALSE, value |-> 0]
             ELSE [ok |-> r.next = Len(token) - Len(name) - 1,
                   assigned |-> TRUE,
                   value |-> r.value])

\* LOOLProtocol::parseNameValuePair(token, name, value): split at the first '='.
parseNameValuePair(token) ==
    With(FindFirstOf(token, "="), LAMBDA mid :
        IF mid # 0
        THEN [ok |-> TRUE, name |-> SubSeq(token, 1, mid - 1),
              value |-> SubstrFrom(token, mid)]
        ELSE [ok |-> FALSE, name |-> <<>>, value |-> <<>>])

\* LOOLProtocol::parseNameIntegerPair(token, name, value)
parseNameIntegerPair(token) ==
    With(FindFirstOf(token, "="), LAMBDA mid :
        IF mid # 0
        THEN With(stringToInteger(SubstrFrom(token, mid)), LAMBDA r :
                 [exc |-> r.exc, ok |-> r.ok,
                  name |-> SubSeq(token, 1, mid - 1), value |-> r.value])
        ELSE [exc |-> "none", ok |-> FALSE, name |-> <<>>, value |-> 0])

\* LOOLProtocol::getTokenString(tokens, name, value): the value of the first
\* token name=<value>.
RECURSIVE getTokenStringFrom(_, _, _)
getTokenStringFrom(tokens, name, i) ==
    IF i > Len(tokens) THEN [ok |-> FALSE, value |-> <<>>]
    ELSE IF /\ Len(tokens[i]) >= Len(name) + 1
            /\ HasPrefix(tokens[i], name)
            /\ tokens[i][Len(name) + 1] = "="
    THEN [ok |-> TRUE, value |-> SubstrFrom(tokens[i], Len(name) + 1)]
    ELSE getTokenStringFrom(tokens, name, i + 1)

getTokenString(tokens, name) == getTokenStringFrom(tokens, name, 1)

(***************************************************************************)
(* std::map<std::string, int>: a function on the keys present.             *)
(***************************************************************************)
EmptyMap == [k \in {} |-> 0]

MapPut(m, k, v) == [x \in DOMAIN m \cup {k} |-> IF x = k THEN v ELSE m[x]]

\* operator[] of a key that is absent value-initializes it: 0.
MapGet(m, k) == IF k \in DOMAIN m THEN m[k] ELSE 0

(***************************************************************************)
(* class TileDesc                                                          *)
(***************************************************************************)
\* The condition the constructor rejects, negated.
TileInvariant(d) ==
    /\ d.part >= 0
    /\ d.width > 0
    /\ d.height > 0
    /\ d.tilePosX >= 0
    /\ d.tilePosY >= 0
    /\ d.tileWidth > 0
    /\ d.tileHeight > 0
    /\ d.imgSize >= 0

\* TileDesc::TileDesc: the object, or no object and the message of the
\* BadArgumentException thrown.
TileDesc(part, width, height, tilePosX, tilePosY, tileWidth, tileHeight, ver, imgSize, id, broadcast) ==
    IF \/ part < 0
       \/ width <= 0
       \/ height <= 0
       \/ tilePosX < 0
       \/ tilePosY < 0
       \/ tileWidth <= 0
       \/ tileHeight <= 0
       \/ imgSize < 0
    THEN [exc |-> "Invalid tile descriptor.", obj |-> Null]
    ELSE [exc |-> "none",
          obj |-> [part |-> part, width |-> width, height |-> height,
                   tilePosX |-> tilePosX, tilePosY |-> tilePosY,
                   tileWidth |-> tileWidth, tileHeight |-> tileHeight,
                   ver |-> ver, imgSize |-> imgSize, id |-> id,
                   broadcast |-> broadcast, oldHash |-> 0, hash |-> 0]]

setVersion(d, ver) == [d EXCEPT !.ver = ver]

setImgSize(d, imgSize) == [d EXCEPT !.imgSize = imgSize]

setOldHash(d, hash) == [d EXCEPT !.oldHash = hash]

setHash(d, hash) == [d EXCEPT !.hash = hash]

\* TileDesc::operator==
Equals(d, o) ==
    /\ d.part = o.part
    /\ d.width = o.width
    /\ d.height = o.height
    /\ d.tilePosX = o.tilePosX
    /\ d.tilePosY = o.tilePosY
    /\ d.tileWidth = o.tileWidth
    /\ d.tileHeight = o.tileHeight
    /\ d.id = o.id
    /\ d.broadcast = o.broadcast

intersectsWithRect_strict(d, x, y, w, h) ==
    /\ x + w > d.tilePosX
    /\ x < d.tilePosX + d.tileWidth
    /\ y + h > d.tilePosY
    /\ y < d.tilePosY + d.tileHeight

\* TileDesc::intersectsWithRect
intersectsWithRect(d, x, y, w, h) ==
    /\ x + w >= d.tilePosX
    /\ x <= d.tilePosX + d.tileWidth
    /\ y + h >= d.tilePosY
    /\ y <= d.tilePosY + d.tileHeight

\* TileDesc::intersects
intersects(d, o) ==
    intersectsWithRect(d, o.tilePosX, o.tilePosY, o.tileWidth, o.tileHeight)

isAdjacent_noTileHeight(d, o) ==
    IF \/ o.part # d.part
       \/ o.width # d.width
       \/ o.height # d.height
       \/ o.tileWidth # d.tileWidth
    THEN FALSE
    ELSE intersects(d, o)

\* TileDesc::isAdjacent
isAdjacent(d, o) ==
    IF \/ o.part # d.part
       \/ o.width # d.width
       \/ o.height # d.height
       \/ o.tileWidth # d.tileWidth
       \/ o.tileHeight # d.tileHeight
    THEN FALSE
    ELSE intersects(d, o)

TileDesc_serialize_idPositive(d, prefix) ==
    prefix
    \o <<" ", "p", "a", "r", "t", "=">> \o IntToStr(d.part)
    \o <<" ", "w", "i", "d", "t", "h", "=">> \o IntToStr(d.width)
    \o <<" ", "h", "e", "i", "g", "h", "t", "=">> \o IntToStr(d.height)
    \o <<" ", "t", "i", "l", "e", "p", "o", "s", "x", "=">> \o IntToStr(d.tilePosX)
    \o <<" ", "t", "i", "l", "e", "p", "o", "s", "y", "=">> \o IntToStr(d.tilePosY)
    \o <<" ", "t", "i", "l", "e", "w", "i", "d", "t", "h", "=">> \o IntToStr(d.tileWidth)
    \o <<" ", "t", "i", "l", "e", "h", "e", "i", "g", "h", "t", "=">> \o IntToStr(d.tileHeight)
    \o <<" ", "o", "l", "d", "h", "a", "s", "h", "=">> \o NatToStr(d.oldHash)
    \o <<" ", "h", "a", "s", "h", "=">> \o NatToStr(d.hash)
    \o <<" ", "v", "e", "r", "=">> \o IntToStr(d.ver)
    \o (IF d.id > 0 THEN <<" ", "i", "d", "=">> \o IntToStr(d.id) ELSE <<>>)
    \o (IF d.imgSize > 0 THEN <<" ", "i", "m", "g", "s", "i", "z", "e", "=">> \o IntToStr(d.imgSize) ELSE <<>>)
    \o (IF d.broadcast THEN <<" ", "b", "r", "o", "a", "d", "c", "a", "s", "t", "=", "y", "e", "s">> ELSE <<>>)

\* TileDesc::serialize(prefix)
TileDesc_serialize(d, prefix) ==
    prefix
    \o <<" ", "p", "a", "r", "t", "=">> \o IntToStr(d.part)
    \o <<" ", "w", "i", "d", "t", "h", "=">> \o IntToStr(d.width)
    \o <<" ", "h", "e", "i", "g", "h", "t", "=">> \o IntToStr(d.height)
    \o <<" ", "t", "i", "l", "e", "p", "o", "s", "x", "=">> \o IntToStr(d.tilePosX)
    \o <<" ", "t", "i", "l", "e", "p", "o", "s", "y", "=">> \o IntToStr(d.tilePosY)
    \o <<" ", "t", "i", "l", "e", "w", "i", "d", "t", "h", "=">> \o IntToStr(d.tileWidth)
    \o <<" ", "t", "i", "l", "e", "h", "e", "i", "g", "h", "t", "=">> \o IntToStr(d.tileHeight)
    \o <<" ", "o", "l", "d", "h", "a", "s", "h", "=">> \o NatToStr(d.oldHash)
    \o <<" ", "h", "a", "s", "h", "=">> \o NatToStr(d.hash)
    \o <<" ", "v", "e", "r", "=">> \o IntToStr(d.ver)
    \o (IF d.id >= 0 THEN <<" ", "i", "d", "=">> \o IntToStr(d.id) ELSE <<>>)
    \o (IF d.imgSize > 0 THEN <<" ", "i", "m", "g", "s", "i", "z", "e", "=">> \o IntToStr(d.imgSize) ELSE <<>>)
    \o (IF d.broadcast THEN <<" ", "b", "r", "o", "a", "d", "c", "a", "s", "t", "=", "y", "e", "s">> ELSE <<>>)

\* The locals of TileDesc::parse before its loop: the optional fields.
TileDesc_parseInit ==
    [exc |-> "none",
     pairs |-> MapPut(MapPut(MapPut(EmptyMap, <<"v", "e", "r">>, -1), <<"i", "m", "g", "s", "i", "z", "e">>, 0),
                      <<"i", "d">>, -1),
     oldHash |-> 0,
     hash |-> 0]

TileDesc_parseToken_strict(st, token) ==
    With(getTokenUInt64(token, <<"o", "l", "d", "h", "a", "s", "h">>), LAMBDA oh :
      With(IF oh.assigned THEN [st EXCEPT !.oldHash = oh.value] ELSE st,
           LAMBDA st1 :
        IF oh.ok THEN st1
        ELSE With(getTokenUInt64(token, <<"h", "a", "s", "h">>), LAMBDA h :
          With(IF h.assigned THEN [st1 EXCEPT !.hash = h.value] ELSE st1,
               LAMBDA st2 :
            IF h.ok THEN st2
            ELSE With(parseNameIntegerPair(token), LAMBDA p :
                IF p.exc # "none" THEN [st2 EXCEPT !.exc = p.exc]
                ELSE IF p.ok
                THEN [st2 EXCEPT !.pairs = MapPut(@, p.name, p.value)]
                ELSE IF HasPrefix(token, <<"b", "r", "o", "a", "d", "c", "a", "s", "t", "=">>) THEN st2
                ELSE [st2 EXCEPT !.exc = "Malformed token."])))))

\* One turn of the loop of TileDesc::parse.
TileDesc_parseToken(st, token) ==
    With(getTokenUInt64(token, <<"o", "l", "d", "h", "a", "s", "h">>), LAMBDA oh :
      With(IF oh.assigned THEN [st EXCEPT !.oldHash = oh.value] ELSE st,
           LAMBDA st1 :
        IF oh.ok THEN st1
        ELSE With(getTokenUInt64(token, <<"h", "a", "s", "h">>), LAMBDA h :
          With(IF h.assigned THEN [st1 EXCEPT !.hash = h.value] ELSE st1,
               LAMBDA st2 :
            IF h.ok THEN st2
            ELSE With(parseNameIntegerPair(token), LAMBDA p :
                IF p.exc # "none" THEN [st2 EXCEPT !.exc = p.exc]
                ELSE IF p.ok
                THEN [st2 EXCEPT !.pairs = MapPut(@, p.name, p.value)]
                ELSE st2)))))

RECURSIVE TileDesc_parseLoop(_, _, _)
TileDesc_parseLoop(tokens, i, st) ==
    IF i > Len(tokens) \/ st.exc # "none" THEN st
    ELSE With(TileDesc_parseToken(st, tokens[i]), LAMBDA st1 :
             TileDesc_parseLoop(tokens, i + 1, st1))

TileDesc_parseResult(st, broadcast) ==
    IF st.exc # "none" THEN [exc |-> st.exc, obj |-> Null]
    ELSE With(TileDesc(MapGet(st.pairs, <<"p", "a", "r", "t">>),
                       MapGet(st.pairs, <<"w", "i", "d", "t", "h">>),
                       MapGet(st.pairs, <<"h", "e", "i", "g", "h", "t">>),
                       MapGet(st.pairs, <<"t", "i", "l", "e", "p", "o", "s", "x">>),
                       MapGet(st.pairs, <<"t", "i", "l", "e", "p", "o", "s", "y">>),
                       MapGet(st.pairs, <<"t", "i", "l", "e", "w", "i", "d", "t", "h">>),
                       MapGet(st.pairs, <<"t", "i", "l", "e", "h", "e", "i", "g", "h", "t">>),
                       MapGet(st.pairs, <<"v", "e", "r">>),
                       MapGet(st.pairs, <<"i", "m", "g", "s", "i", "z", "e">>),
                       MapGet(st.pairs, <<"i", "d">>),
                       broadcast),
              LAMBDA result :
                  IF result.exc # "none" THEN result
                  ELSE [exc |-> "none",
                        obj |-> setHash(setOldHash(result.obj, st.oldHash),
                                        st.hash)])

\* TileDesc::parse(tokens): the object, or the exception and no object.
TileDesc_parse(tokenList) ==
    With(tokenList, LAMBDA tokens :
        With(TileDesc_parseLoop(tokens, 1, TileDesc_parseInit), LAMBDA st :
            With(getTokenString(tokens, <<"b", "r", "o", "a", "d", "c", "a", "s", "t">>), LAMBDA s :
                TileDesc_parseResult(st, s.ok /\ s.value = <<"y", "e", "s">>))))

\* TileDesc::parse(message)
TileDesc_parseMessage(message) == TileDesc_parse(tokenize(message))

(***************************************************************************)
(* The single-tile driver: a descriptor is constructed, changed through    *)
(* its setters and serialized, or a message arrives; the text is parsed.   *)
(***************************************************************************)
PartVals == {-1, 0, 1}
WidthVals == {0, 8}
HeightVals == {0, 9}
TilePosXVals == {-1, 0, 10}
TilePosYVals == {-1, 3}
TileWidthVals == {0, 4}
TileHeightVals == {-3, 5}
VerVals == {-1, 0, 12}
ImgSizeVals == {-1, 0, 25}
IdVals == -2..MaxId
HashVals == {0, 6, 130}
PrefixVals == {<<>>, <<"t", "i", "l", "e", ":">>}

\* The tokens incoming messages are made of; the first seven carry the
\* fields that parse has no default for.
MessageTokens ==
    << <<"p", "a", "r", "t", "=", "1">>, <<"w", "i", "d", "t", "h", "=", "8">>, <<"h", "e", "i", "g", "h", "t", "=", "9">>, <<"t", "i", "l", "e", "p", "o", "s", "x", "=", "1", "0">>,
       <<"t", "i", "l", "e", "p", "o", "s", "y", "=", "3">>, <<"t", "i", "l", "e", "w", "i", "d", "t", "h", "=", "4">>, <<"t", "i", "l", "e", "h", "e", "i", "g", "h", "t", "=", "5">>,
       <<"t", "i", "l", "e">>, <<"h", "a", "s", "h", "=", "1", "3", "0">>, <<"i", "d", "=", "7">>, <<"c", "o", "l", "o", "u", "r", "=", "r", "e", "d">>, <<"b", "r", "o", "a", "d", "c", "a", "s", "t", "=", "y", "e", "s">> >>

RECURSIVE JoinTokens(_)
JoinTokens(ts) ==
    IF ts = <<>> THEN <<>> ELSE <<" ">> \o Head(ts) \o JoinTokens(Tail(ts))

\* The message made of the tokens whose index is in keep, in order.
Message(keep) ==
    LET pick[i \in 0..Len(MessageTokens)] ==
            IF i = 0 THEN <<>>
            ELSE IF i \in keep THEN Append(pick[i - 1], MessageTokens[i])
            ELSE pick[i - 1]
    IN  JoinTokens(pick[Len(MessageTokens)])

Init ==
    /\ pc = "start"
    /\ desc = Null
    /\ other = Null
    /\ comb = Null
    /\ tiles = <<>>
    /\ origin = Null
    /\ wire = <<>>
    /\ exc = "none"
    /\ args = Null
    /\ ret = Null

Construct ==
    /\ pc = "start"
    /\ \E part \in PartVals, width \in WidthVals, height \in HeightVals,
          tilePosX \in TilePosXVals, tilePosY \in TilePosYVals,
          tileWidth \in TileWidthVals, tileHeight \in TileHeightVals,
          ver \in VerVals, imgSize \in ImgSizeVals, id \in IdVals,
          broadcast \in BOOLEAN :
          \E r \in {TileDesc(part, width, height, tilePosX, tilePosY,
                           tileWidth, tileHeight, ver, imgSize, id, broadcast)} :
              /\ desc' = r.obj
              /\ exc' = r.exc
              /\ pc' = IF r.exc = "none" THEN "constructed" ELSE "failed"
    /\ UNCHANGED <<other, comb, tiles, origin, wire, args, ret>>

SetVersion ==
    /\ pc = "constructed"
    /\ \E ver \in VerVals : desc' = setVersion(desc, ver)
    /\ UNCHANGED <<pc, other, comb, tiles, origin, wire, exc, args, ret>>

SetImgSize ==
    /\ pc = "constructed"
    /\ \E imgSize \in ImgSizeVals : desc' = setImgSize(desc, imgSize)
    /\ UNCHANGED <<pc, other, comb, tiles, origin, wire, exc, args, ret>>

SetOldHash ==
    /\ pc = "constructed"
    /\ \E hash \in HashVals : desc' = setOldHash(desc, hash)
    /\ UNCHANGED <<pc, other, comb, tiles, origin, wire, exc, args, ret>>

SetHash ==
    /\ pc = "constructed"
    /\ \E hash \in HashVals : desc' = setHash(desc, hash)
    /\ UNCHANGED <<pc, other, comb, tiles, origin, wire, exc, args, ret>>

Serialize ==
    /\ pc = "constructed"
    /\ \E prefix \in PrefixVals : wire' = TileDesc_serialize(desc, prefix)
    /\ origin' = desc
    /\ pc' = "serialized"
    /\ UNCHANGED <<desc, other, comb, tiles, exc, args, ret>>

Receive ==
    /\ pc = "start"
    /\ \E keep \in SUBSET (1..Len(MessageTokens)) : wire' = Message(keep)
    /\ pc' = "received"
    /\ UNCHANGED <<desc, other, comb, tiles, origin, exc, args, ret>>

Parse ==
    /\ pc \in {"serialized", "received"}
    /\ \E r \in {TileDesc_parseMessage(wire)} :
           /\ desc' = r.obj
           /\ exc' = r.exc
           /\ pc' = IF r.exc = "none" THEN "parsed" ELSE "rejected"
    /\ UNCHANGED <<other, comb, tiles, origin, wire, args, ret>>

Next ==
    \/ Construct
    \/ SetVersion
    \/ SetImgSize
    \/ SetOldHash
    \/ SetHash
    \/ Serialize
    \/ Receive
    \/ Parse

Spec == Init /\ [][Next]_vars

(***************************************************************************)
(* class TileCombined                                                      *)
(***************************************************************************)
TileCombined_unequal_fewerY(numberOfPositions, a, tk) ==
    \/ numberOfPositions > Len(tk.positionY)
    \/ a.imgSizes # <<>> /\ numberOfPositions # Len(tk.imgSize)
    \/ a.vers # <<>> /\ numberOfPositions # Len(tk.ver)
    \/ a.oldHashes # <<>> /\ numberOfPositions # Len(tk.oldHash)
    \/ a.hashes # <<>> /\ numberOfPositions # Len(tk.hash)

\* The condition of "Unequal number of tiles in parameters": a holds the
\* constructor's arguments, tk the tokens of its six lists.
TileCombined_unequal(numberOfPositions, a, tk) ==
    \/ numberOfPositions # Len(tk.positionY)
    \/ a.imgSizes # <<>> /\ numberOfPositions # Len(tk.imgSize)
    \/ a.vers # <<>> /\ numberOfPositions # Len(tk.ver)
    \/ a.oldHashes # <<>> /\ numberOfPositions # Len(tk.oldHash)
    \/ a.hashes # <<>> /\ numberOfPositions # Len(tk.hash)

UnequalNumberOfTiles ==
    "Invalid tilecombine descriptor. Unequal number of tiles in parameters."

\* A conversion of the constructor's loop: the value, or the exception and
\* the message thrown when the conversion returns false.
Converted(r, message) ==
    IF r.exc # "none" THEN [exc |-> r.exc, value |-> 0]
    ELSE IF ~r.ok THEN [exc |-> message, value |-> 0]
    ELSE [exc |-> "none", value |-> r.value]

Unconverted(default) == [exc |-> "none", value |-> default]

\* One turn of the constructor's loop: the tile of position i (from 1), or
\* the exception.
TileCombined_tile(a, tk, i) ==
    With(Converted(stringToInteger(tk.positionX[i]),
                   "Invalid 'tileposx' in tilecombine descriptor."),
         LAMBDA x :
    IF x.exc # "none" THEN [exc |-> x.exc, obj |-> Null] ELSE
    With(Converted(stringToInteger(tk.positionY[i]),
                   "Invalid 'tileposy' in tilecombine descriptor."),
         LAMBDA y :
    IF y.exc # "none" THEN [exc |-> y.exc, obj |-> Null] ELSE
    With(IF Len(tk.imgSize) # 0
         THEN Converted(stringToInteger(tk.imgSize[i]),
                        "Invalid 'imgsize' in tilecombine descriptor.")
         ELSE Unconverted(0),
         LAMBDA imgSize :
    IF imgSize.exc # "none" THEN [exc |-> imgSize.exc, obj |-> Null] ELSE
    With(IF Len(tk.ver) # 0 /\ tk.ver[i] # <<>>
         THEN Converted(stringToInteger(tk.ver[i]),
                        "Invalid 'ver' in tilecombine descriptor.")
         ELSE Unconverted(-1),
         LAMBDA ver :
    IF ver.exc # "none" THEN [exc |-> ver.exc, obj |-> Null] ELSE
    With(IF Len(tk.oldHash) # 0
         THEN Converted(stringToUInt64(tk.oldHash[i]),
                        "Invalid tilecombine descriptor.")
         ELSE Unconverted(0),
         LAMBDA oldHash :
    IF oldHash.exc # "none" THEN [exc |-> oldHash.exc, obj |-> Null] ELSE
    With(IF Len(tk.hash) # 0
         THEN Converted(stringToUInt64(tk.hash[i]),
                        "Invalid tilecombine descriptor.")
         ELSE Unconverted(0),
         LAMBDA hash :
    IF hash.exc # "none" THEN [exc |-> hash.exc, obj |-> Null] ELSE
    With(TileDesc(a.part, a.width, a.height, x.value, y.value,
                  a.tileWidth, a.tileHeight, ver.value, imgSize.value,
                  a.id, FALSE),
         LAMBDA t :
    IF t.exc # "none" THEN t
    ELSE [exc |-> "none",
          obj |-> setHash(setOldHash(t.obj, oldHash.value), hash.value)]
    )))))))

\* The constructor's loop from position i on, _tiles holding the tiles of
\* the positions before i.
RECURSIVE TileCombined_tiles(_, _, _, _, _)
TileCombined_tiles(a, tk, numberOfPositions, i, _tiles) ==
    IF i > numberOfPositions THEN [exc |-> "none", tiles |-> _tiles]
    ELSE With(TileCombined_tile(a, tk, i), LAMBDA t :
             IF t.exc # "none" THEN [exc |-> t.exc, tiles |-> <<>>]
             ELSE TileCombined_tiles(a, tk, numberOfPositions, i + 1,
                                     Append(_tiles, t.obj)))

TileCombined_tokens(a) ==
    [positionX |-> StringTokenizer(a.tilePositionsX),
     positionY |-> StringTokenizer(a.tilePositionsY),
     imgSize |-> StringTokenizer(a.imgSizes),
     ver |-> StringTokenizer(a.vers),
     oldHash |-> StringTokenizer(a.oldHashes),
     hash |-> StringTokenizer(a.hashes)]

\* TileCombined::TileCombined, a the record of its arguments: the object, or
\* no object and the exception.
TileCombined(a) ==
    IF \/ a.part < 0
       \/ a.width <= 0
       \/ a.height <= 0
       \/ a.tileWidth <= 0
       \/ a.tileHeight <= 0
    THEN [exc |-> "Invalid tilecombine descriptor.", obj |-> Null]
    ELSE With(TileCombined_tokens(a), LAMBDA tk :
        IF TileCombined_unequal(Len(tk.positionX), a, tk)
        THEN [exc |-> UnequalNumberOfTiles, obj |-> Null]
        ELSE With(TileCombined_tiles(a, tk, Len(tk.positionX), 1, <<>>),
                  LAMBDA r :
            IF r.exc # "none" THEN [exc |-> r.exc, obj |-> Null]
            ELSE [exc |-> "none",
                  obj |-> [tiles |-> r.tiles, part |-> a.part,
                           width |-> a.width, height |-> a.height,
                           tileWidth |-> a.tileWidth,
                           tileHeight |-> a.tileHeight, id |-> a.id]]))

(***************************************************************************)
(* std::ostringstream: the buffer, the put position (tellp) and failbit.   *)
(***************************************************************************)
NewStream == [buf |-> <<>>, pos |-> 0, fail |-> FALSE]

\* operator<<: the text overwrites the buffer from the put position on.
Put(os, text) ==
    IF os.fail THEN os
    ELSE [os EXCEPT
             !.buf = SubSeq(os.buf, 1, os.pos) \o text
                     \o SubSeq(os.buf, os.pos + Len(text) + 1, Len(os.buf)),
             !.pos = os.pos + Len(text)]

SeekBack_two(os) ==
    IF os.fail THEN os
    ELSE IF os.pos < 2 THEN [os EXCEPT !.fail = TRUE]
    ELSE [os EXCEPT !.pos = os.pos - 2]

\* seekp(-1, std::ios_base::cur)
SeekBack(os) ==
    IF os.fail THEN os
    ELSE IF os.pos = 0 THEN [os EXCEPT !.fail = TRUE]
    ELSE [os EXCEPT !.pos = os.pos - 1]

\* str(): the whole buffer, whatever the put position.
Str(os) == os.buf

\* str().substr(0, tellp()): tellp() is -1, hence npos, after a failure.
StrToTellp(os) == IF os.fail THEN os.buf ELSE SubSeq(os.buf, 1, os.pos)

\* The texts a loop over the tiles writes: Field of each tile, in order.
Each(_tiles, Field(_)) == [i \in 1..Len(_tiles) |-> Field(_tiles[i])]

\* for (tile : _tiles) oss << Field(tile) << ','; from tile i on, texts
\* holding Field of each tile.
RECURSIVE PutEach(_, _, _)
PutEach(os, texts, i) ==
    IF i > Len(texts) THEN os
    ELSE With(Put(os, texts[i] \o <<",">>), LAMBDA os1 :
             PutEach(os1, texts, i + 1))

\* oss << key; the loop over the tiles; oss.seekp(-1, std::ios_base::cur).
PutList(os, key, texts) ==
    With(Put(os, key), LAMBDA os1 :
        With(PutEach(os1, texts, 1), LAMBDA os2 : SeekBack(os2)))

\* TileCombined::serialize(prefix)
TileCombined_serialize(c, prefix) ==
    With(Put(NewStream, prefix
                        \o <<" ", "p", "a", "r", "t", "=">> \o IntToStr(c.part)
                        \o <<" ", "w", "i", "d", "t", "h", "=">> \o IntToStr(c.width)
                        \o <<" ", "h", "e", "i", "g", "h", "t", "=">> \o IntToStr(c.height)), LAMBDA s0 :
    With(PutList(s0, <<" ", "t", "i", "l", "e", "p", "o", "s", "x", "=">>,
                 Each(c.tiles, LAMBDA t : IntToStr(t.tilePosX))), LAMBDA s1 :
    With(PutList(s1, <<" ", "t", "i", "l", "e", "p", "o", "s", "y", "=">>,
                 Each(c.tiles, LAMBDA t : IntToStr(t.tilePosY))), LAMBDA s2 :
    With(PutList(s2, <<" ", "i", "m", "g", "s", "i", "z", "e", "=">>,
                 Each(c.tiles, LAMBDA t : IntToStr(t.imgSize))), LAMBDA s3 :
    With(Put(s3, <<" ", "t", "i", "l", "e", "w", "i", "d", "t", "h", "=">> \o IntToStr(c.tileWidth)
                 \o <<" ", "t", "i", "l", "e", "h", "e", "i", "g", "h", "t", "=">> \o IntToStr(c.tileHeight)), LAMBDA s4 :
    With(PutList(s4, <<" ", "v", "e", "r", "=">>,
                 Each(c.tiles, LAMBDA t : IntToStr(t.ver))), LAMBDA s5 :
    With(PutList(s5, <<" ", "o", "l", "d", "h", "a", "s", "h", "=">>,
                 Each(c.tiles, LAMBDA t : NatToStr(t.oldHash))), LAMBDA s6 :
    With(PutList(s6, <<" ", "h", "a", "s", "h", "=">>,
                 Each(c.tiles, LAMBDA t : NatToStr(t.hash))), LAMBDA s7 :
    With(IF c.id >= 0 THEN Put(s7, <<" ", "i", "d", "=">> \o IntToStr(c.id)) ELSE s7,
         LAMBDA s8 : StrToTellp(s8))))))))))

\* The locals of TileCombined::parse before its loop.
TileCombined_parseInit ==
    [exc |-> "none",
     pairs |-> MapPut(EmptyMap, <<"i", "d">>, -1),
     tilePositionsX |-> <<>>,
     tilePositionsY |-> <<>>,
     imgSizes |-> <<>>,
     versions |-> <<>>,
     oldhashes |-> <<>>,
     hashes |-> <<>>]

\* One turn of the loop of TileCombined::parse.
TileCombined_parseToken(st, token) ==
    With(parseNameValuePair(token), LAMBDA p :
        IF ~p.ok THEN st
        ELSE IF p.name = <<"t", "i", "l", "e", "p", "o", "s", "x">>
        THEN [st EXCEPT !.tilePositionsX = p.value]
        ELSE IF p.name = <<"t", "i", "l", "e", "p", "o", "s", "y">>
        THEN [st EXCEPT !.tilePositionsY = p.value]
        ELSE IF p.name = <<"i", "m", "g", "s", "i", "z", "e">> THEN [st EXCEPT !.imgSizes = p.value]
        ELSE IF p.name = <<"v", "e", "r">> THEN [st EXCEPT !.versions = p.value]
        ELSE IF p.name = <<"o", "l", "d", "h", "a", "s", "h">> THEN [st EXCEPT !.oldhashes = p.value]
        ELSE IF p.name = <<"h", "a", "s", "h">> THEN [st EXCEPT !.hashes = p.value]
        ELSE With(stringToInteger(p.value), LAMBDA v :
                 IF v.exc # "none" THEN [st EXCEPT !.exc = v.exc]
                 ELSE IF v.ok
                 THEN [st EXCEPT !.pairs = MapPut(@, p.name, v.value)]
                 ELSE st))

RECURSIVE TileCombined_parseLoop(_, _, _)
TileCombined_parseLoop(tokens, i, st) ==
    IF i > Len(tokens) \/ st.exc # "none" THEN st
    ELSE With(TileCombined_parseToken(st, tokens[i]), LAMBDA st1 :
             TileCombined_parseLoop(tokens, i + 1, st1))

\* The constructor call TileCombined::parse(tokens) ends with: its
\* arguments, or the exception thrown before it.
TileCombined_parseArgs(tokenList) ==
    With(tokenList, LAMBDA tokens :
        With(TileCombined_parseLoop(tokens, 1, TileCombined_parseInit),
             LAMBDA st :
            IF st.exc # "none" THEN [exc |-> st.exc, a |-> Null]
            ELSE [exc |-> "none",
                  a |-> [part |-> MapGet(st.pairs, <<"p", "a", "r", "t">>),
                         width |-> MapGet(st.pairs, <<"w", "i", "d", "t", "h">>),
                         height |-> MapGet(st.pairs, <<"h", "e", "i", "g", "h", "t">>),
                         tilePositionsX |-> st.tilePositionsX,
                         tilePositionsY |-> st.tilePositionsY,
                         tileWidth |-> MapGet(st.pairs, <<"t", "i", "l", "e", "w", "i", "d", "t", "h">>),
                         tileHeight |-> MapGet(st.pairs, <<"t", "i", "l", "e", "h", "e", "i", "g", "h", "t">>),
                         vers |-> st.versions,
                         imgSizes |-> st.imgSizes,
                         id |-> MapGet(st.pairs, <<"i", "d">>),
                         oldHashes |-> st.oldhashes,
                         hashes |-> st.hashes]]))

\* TileCombined::parse(message), up to the constructor call.
TileCombined_parseMessageArgs(message) ==
    TileCombined_parseArgs(tokenize(message))

\* std::ostringstream xs; for (tile : tiles) xs << Field(tile) << ',';
\* xs.str()
ListOf(ts, Field(_)) == Str(PutEach(NewStream, Each(ts, Field), 1))

TileCombined_createArgs_checked(ts) ==
    [part |-> IF \A i \in 1..Len(ts) :
                     /\ ts[i].part = ts[1].part
                     /\ ts[i].tileHeight = ts[1].tileHeight
              THEN ts[1].part ELSE -1,
     width |-> ts[1].width,
     height |-> ts[1].height,
     tilePositionsX |-> ListOf(ts, LAMBDA t : IntToStr(t.tilePosX)),
     tilePositionsY |-> ListOf(ts, LAMBDA t : IntToStr(t.tilePosY)),
     tileWidth |-> ts[1].tileWidth,
     tileHeight |-> ts[1].tileHeight,
     vers |-> Str(SeekBack(
                  PutEach(NewStream, Each(ts, LAMBDA t : IntToStr(t.ver)), 1))),
     imgSizes |-> <<>>,
     id |-> -1,
     oldHashes |-> ListOf(ts, LAMBDA t : NatToStr(t.oldHash)),
     hashes |-> ListOf(ts, LAMBDA t : NatToStr(t.hash))]

TileCombined_createArgs_keepId(ts) ==
    [part |-> ts[1].part,
     width |-> ts[1].width,
     height |-> ts[1].height,
     tilePositionsX |-> ListOf(ts, LAMBDA t : IntToStr(t.tilePosX)),
     tilePositionsY |-> ListOf(ts, LAMBDA t : IntToStr(t.tilePosY)),
     tileWidth |-> ts[1].tileWidth,
     tileHeight |-> ts[1].tileHeight,
     vers |-> Str(SeekBack(
                  PutEach(NewStream, Each(ts, LAMBDA t : IntToStr(t.ver)), 1))),
     imgSizes |-> <<>>,
     id |-> ts[1].id,
     oldHashes |-> ListOf(ts, LAMBDA t : NatToStr(t.oldHash)),
     hashes |-> ListOf(ts, LAMBDA t : NatToStr(t.hash))]

\* The constructor call TileCombined::create(tiles) ends with, for a vector
\* ts that is not empty.
TileCombined_createArgs(ts) ==
    [part |-> ts[1].part,
     width |-> ts[1].width,
     height |-> ts[1].height,
     tilePositionsX |-> ListOf(ts, LAMBDA t : IntToStr(t.tilePosX)),
     tilePositionsY |-> ListOf(ts, LAMBDA t : IntToStr(t.tilePosY)),
     tileWidth |-> ts[1].tileWidth,
     tileHeight |-> ts[1].tileHeight,
     vers |-> Str(SeekBack(
                  PutEach(NewStream, Each(ts, LAMBDA t : IntToStr(t.ver)), 1))),
     imgSizes |-> <<>>,
     id |-> -1,
     oldHashes |-> ListOf(ts, LAMBDA t : NatToStr(t.oldHash)),
     hashes |-> ListOf(ts, LAMBDA t : NatToStr(t.hash))]

(***************************************************************************)
(* The combined-tile driver: a vector of descriptors is handed to create,  *)
(* or a tilecombine message arrives and is parsed; the batch is serialized *)
(* and the text parsed again.                                              *)
(***************************************************************************)
\* A valid descriptor of the 8 x 9 canvas with tiles 4 wide.
MadeTile(part, tilePosX, tilePosY, tileHeight, ver, imgSize, id, broadcast, oldHash, hash) ==
    setHash(setOldHash(TileDesc(part, 8, 9, tilePosX, tilePosY, 4, tileHeight,
                                ver, imgSize, id, broadcast).obj,
                       oldHash),
            hash)

\* The descriptors create is called with; the last two differ from the
\* others in part and in tileHeight.
CreateTiles ==
    { MadeTile(1, 0, 3, 5, 12, 0, -1, FALSE, 0, 0),
      MadeTile(1, 10, 0, 5, -1, 0, -1, FALSE, 6, 130),
      MadeTile(1, 4, 3, 5, 0, 25, 7, FALSE, 130, 6),
      MadeTile(1, 0, 0, 5, 12, 0, -1, TRUE, 0, 6),
      MadeTile(0, 10, 3, 5, 12, 0, -1, FALSE, 6, 0),
      MadeTile(1, 4, 0, 6, -1, 0, -1, FALSE, 0, 0) }

TileVectors == UNION {[1..n -> CreateTiles] : n \in 1..MaxTiles}

CombinedPrefixVals == {<<>>, <<"t", "i", "l", "e", "c", "o", "m", "b", "i", "n", "e">>}

\* The tokens of incoming tilecombine messages, by key; <<>> is no token.
ScalarChoices ==
    { <<"p", "a", "r", "t", "=", "1", " ", "w", "i", "d", "t", "h", "=", "8", " ", "h", "e", "i", "g", "h", "t", "=", "9", " ", "t", "i", "l", "e", "w", "i", "d", "t", "h", "=", "4", " ", "t", "i", "l", "e", "h", "e", "i", "g", "h", "t", "=", "5">>,
      <<"p", "a", "r", "t", "=", "-", "1", " ", "w", "i", "d", "t", "h", "=", "8", " ", "h", "e", "i", "g", "h", "t", "=", "9", " ", "t", "i", "l", "e", "w", "i", "d", "t", "h", "=", "4", " ", "t", "i", "l", "e", "h", "e", "i", "g", "h", "t", "=", "5">>,
      <<"p", "a", "r", "t", "=", "0", " ", "w", "i", "d", "t", "h", "=", "8", " ", "h", "e", "i", "g", "h", "t", "=", "9", " ", "t", "i", "l", "e", "h", "e", "i", "g", "h", "t", "=", "5">> }
TilePosXChoices ==
    {<<>>, <<"t", "i", "l", "e", "p", "o", "s", "x", "=", "0">>, <<"t", "i", "l", "e", "p", "o", "s", "x", "=", "0", ",", "1", "0">>, <<"t", "i", "l", "e", "p", "o", "s", "x", "=", "-", "4", ",", "0">>,
     <<"t", "i", "l", "e", "p", "o", "s", "x", "=", "x", ",", "0">>}
TilePosYChoices == {<<>>, <<"t", "i", "l", "e", "p", "o", "s", "y", "=", "3">>, <<"t", "i", "l", "e", "p", "o", "s", "y", "=", "3", ",", "0">>}
ImgSizeChoices == {<<>>, <<"i", "m", "g", "s", "i", "z", "e", "=", "0", ",", "2", "5">>, <<"i", "m", "g", "s", "i", "z", "e", "=", "-", "5", ",", "0">>}
VerChoices == {<<>>, <<"v", "e", "r", "=", "-", "1", ",", "1", "2">>, <<"v", "e", "r", "=", ",">>}
OldHashChoices == {<<>>, <<"o", "l", "d", "h", "a", "s", "h", "=", "6", ",", "1", "3", "0">>}
HashChoices == {<<>>, <<"h", "a", "s", "h", "=", "1", "3", "0", ",", "6">>, <<"h", "a", "s", "h", "=", "0">>}
IdChoices == {<<>>, <<"i", "d", "=", "7">>}

InitCombined == Init

Create ==
    /\ pc = "start"
    /\ \E ts \in TileVectors :
       \E a \in {TileCombined_createArgs(ts)} :
       \E r \in {TileCombined(a)} :
           /\ tiles' = ts
           /\ args' = a
           /\ comb' = r.obj
           /\ exc' = r.exc
           /\ pc' = IF r.exc = "none" THEN "created" ELSE "failed"
    /\ UNCHANGED <<desc, other, origin, wire, ret>>

ReceiveCombined ==
    /\ pc = "start"
    /\ \E scalars \in ScalarChoices, x \in TilePosXChoices,
          y \in TilePosYChoices, imgSize \in ImgSizeChoices,
          ver \in VerChoices, oldHash \in OldHashChoices,
          hash \in HashChoices, id \in IdChoices :
          wire' = JoinTokens(NonEmptyTokens(
                      <<scalars, x, y, imgSize, ver, oldHash, hash, id>>))
    /\ pc' = "received"
    /\ UNCHANGED <<desc, other, comb, tiles, origin, exc, args, ret>>

ParseCombined ==
    /\ pc \in {"received", "serialized"}
    /\ \E p \in {TileCombined_parseMessageArgs(wire)} :
          IF p.exc # "none"
          THEN /\ args' = Null
               /\ comb' = Null
               /\ exc' = p.exc
               /\ pc' = "rejected"
          ELSE \E r \in {TileCombined(p.a)} :
               /\ args' = p.a
               /\ comb' = r.obj
               /\ exc' = r.exc
               /\ pc' = IF r.exc # "none" THEN "rejected"
                        ELSE IF pc = "received" THEN "parsed"
                        ELSE "reparsed"
    /\ UNCHANGED <<desc, other, tiles, origin, wire, ret>>

SerializeCombined ==
    /\ pc \in {"created", "parsed"}
    /\ \E prefix \in CombinedPrefixVals :
          wire' = TileCombined_serialize(comb, prefix)
    /\ origin' = comb
    /\ pc' = "serialized"
    /\ UNCHANGED <<desc, other, comb, tiles, exc, args, ret>>

NextCombined ==
    \/ Create
    \/ ReceiveCombined
    \/ ParseCombined
    \/ SerializeCombined

SpecCombined == InitCombined /\ [][NextCombined]_vars

(***************************************************************************)
(* The geometry driver: two descriptors are constructed and compared, in   *)
(* both orders.                                                            *)
(***************************************************************************)
CoordVals == 0..MaxCoord
ExtentVals == {1, 2}

\* A descriptor of the geometry driver.
GeometryTile(part, width, height, tilePosX, tilePosY, tileWidth, tileHeight) ==
    TileDesc(part, width, height, tilePosX, tilePosY, tileWidth, tileHeight,
             -1, 0, -1, FALSE).obj

InitGeometry ==
    /\ pc = "start"
    /\ desc \in {GeometryTile(0, 8, 9, x, y, w, h) :
                    x \in CoordVals, y \in CoordVals,
                    w \in ExtentVals, h \in ExtentVals}
    /\ other \in {GeometryTile(part, width, height, x, y, w, h) :
                     part \in {0, 1}, width \in {8, 7}, height \in {9, 6},
                     x \in CoordVals, y \in CoordVals,
                     w \in ExtentVals, h \in ExtentVals}
    /\ comb = Null
    /\ tiles = <<>>
    /\ origin = Null
    /\ wire = <<>>
    /\ exc = "none"
    /\ args = Null
    /\ ret = Null

CallIntersects ==
    /\ ret' = [op |-> "intersects",
               ab |-> intersects(desc, other),
               ba |-> intersects(other, desc)]
    /\ pc' = "called"
    /\ UNCHANGED <<desc, other, comb, tiles, origin, wire, exc, args>>

CallIsAdjacent ==
    /\ ret' = [op |-> "isAdjacent",
               ab |-> isAdjacent(desc, other),
               ba |-> isAdjacent(other, desc)]
    /\ pc' = "called"
    /\ UNCHANGED <<desc, other, comb, tiles, origin, wire, exc, args>>

NextGeometry ==
    \/ CallIntersects
    \/ CallIsAdjacent

SpecGeometry == InitGeometry /\ [][NextGeometry]_vars

(***************************************************************************)
(* Properties of TileDesc, under Spec.                                     *)
(***************************************************************************)
\* The text in wire was serialized from a TileDesc and has been parsed.
TileRoundTripped == pc \in {"parsed", "rejected"} /\ origin # Null

\* d equals o under operator== and in every other field.
SameTile(d, o) ==
    /\ Equals(d, o)
    /\ d.ver = o.ver
    /\ d.imgSize = o.imgSize
    /\ d.id = o.id
    /\ d.broadcast = o.broadcast
    /\ d.oldHash = o.oldHash
    /\ d.hash = o.hash

\* C1 as stated: for every valid TileDesc d, whatever its id,
\* parse(d.serialize()) succeeds and equals d under operator== and in
\* version, imgSize, id, broadcast, oldHash and hash.
C1_RoundTripAnyId ==
    (TileRoundTripped /\ TileInvariant(origin))
        => (pc = "parsed" /\ SameTile(desc, origin))

\* C1 amended: the round trip of a valid TileDesc d holds when d's id is at
\* least -1: parse(d.serialize()) succeeds and equals d under operator== and
\* in version, imgSize, id, broadcast, oldHash and hash.
C1_RoundTrip ==
    (TileRoundTripped /\ TileInvariant(origin) /\ origin.id >= -1)
        => (pc = "parsed" /\ SameTile(desc, origin))

C1_Witness ==
    /\ pc = "parsed"
    /\ origin # Null
    /\ origin.id = 0
    /\ origin.broadcast
    /\ origin.imgSize = 25
    /\ origin.ver = -1
    /\ origin.oldHash = 6
    /\ origin.hash = 130
    /\ SameTile(desc, origin)

\* C3 as stated: every TileDesc that exists satisfies part>=0, width>0,
\* height>0, tilePosX>=0, tilePosY>=0, tileWidth>0, tileHeight>0 and
\* imgSize>=0, after any calls of its setters, and a construction that
\* fails yields no object.
C3_InvariantKept ==
    /\ pc = "failed" => desc = Null
    /\ desc # Null => TileInvariant(desc)

\* A token that is none of oldhash=, hash=, broadcast= and that
\* parseNameIntegerPair does not take as name=integer.
Malformed(token) ==
    /\ ~(\E key \in { <<"o", "l", "d", "h", "a", "s", "h">>, <<"h", "a", "s", "h">>, <<"b", "r", "o", "a", "d", "c", "a", "s", "t">> } :
            /\ parseNameValuePair(token).ok
            /\ parseNameValuePair(token).name = key)
    /\ ~parseNameIntegerPair(token).ok

HasMalformed(tokens) == \E i \in 1..Len(tokens) : Malformed(tokens[i])

\* C6 as stated: TileDesc::parse fails, and returns no descriptor, whenever
\* a token is not one of the specially handled keys and is not name=integer.
C6_MalformedRejected ==
    (pc \in {"parsed", "rejected"} /\ HasMalformed(tokenize(wire)))
        => (pc = "rejected" /\ desc = Null)

\* C6 amended: TileDesc::parse skips every token that is not one of the
\* specially handled keys and is not name=integer: it returns what it
\* returns for the token list without those tokens, a descriptor or the
\* constructor's exception.
C6_MalformedSkipped ==
    pc \in {"parsed", "rejected"}
        => \E r \in {TileDesc_parse(SelectSeq(tokenize(wire),
                                              LAMBDA t : ~Malformed(t)))} :
               desc = r.obj /\ exc = r.exc

C6_Witness ==
    /\ pc = "parsed"
    /\ origin = Null
    /\ HasMalformed(tokenize(wire))
    /\ desc.id = 7
    /\ desc.hash = 130
    /\ desc.broadcast

RequiredKeys ==
    { <<"p", "a", "r", "t">>, <<"w", "i", "d", "t", "h">>, <<"h", "e", "i", "g", "h", "t">>, <<"t", "i", "l", "e", "p", "o", "s", "x">>, <<"t", "i", "l", "e", "p", "o", "s", "y">>,
      <<"t", "i", "l", "e", "w", "i", "d", "t", "h">>, <<"t", "i", "l", "e", "h", "e", "i", "g", "h", "t">> }

HasKey(tokens, key) ==
    \E i \in 1..Len(tokens) :
        /\ parseNameValuePair(tokens[i]).ok
        /\ parseNameValuePair(tokens[i]).name = key

\* C9 as stated: when the token list has no token for one of part, width,
\* height, tileposx, tileposy, tilewidth, tileheight, TileDesc::parse
\* returns no descriptor and fails in the constructor's validation.
C9_MissingFieldRejected ==
    (/\ pc \in {"parsed", "rejected"}
     /\ \E key \in RequiredKeys : ~HasKey(tokenize(wire), key))
        => (pc = "rejected" /\ desc = Null /\ exc = "Invalid tile descriptor.")

(***************************************************************************)
(* Properties of TileCombined, under SpecCombined.                         *)
(***************************************************************************)
\* The tiles of ts share part, width, height, tileWidth and tileHeight.
Homogeneous(ts) ==
    \A i \in 1..Len(ts) :
        /\ ts[i].part = ts[1].part
        /\ ts[i].width = ts[1].width
        /\ ts[i].height = ts[1].height
        /\ ts[i].tileWidth = ts[1].tileWidth
        /\ ts[i].tileHeight = ts[1].tileHeight

\* The batch made by create from tiles was serialized and the text parsed.
CreateRoundTripped ==
    pc \in {"reparsed", "rejected"} /\ origin # Null /\ tiles # <<>>

\* C2 as stated: for tiles d1..dN that share their geometry,
\* parse(create([d1..dN]).serialize()) has N tiles, the i-th equal to di
\* under operator== and with di's version, oldHash and hash.
C2_CreateInverseEqual ==
    (CreateRoundTripped /\ Homogeneous(tiles))
        => /\ pc = "reparsed"
           /\ Len(comb.tiles) = Len(tiles)
           /\ \A i \in 1..Len(tiles) :
                  /\ Equals(comb.tiles[i], tiles[i])
                  /\ comb.tiles[i].ver = tiles[i].ver
                  /\ comb.tiles[i].oldHash = tiles[i].oldHash
                  /\ comb.tiles[i].hash = tiles[i].hash

\* C2 amended: for tiles d1..dN that share their geometry,
\* parse(create([d1..dN]).serialize()) has N tiles, the i-th with di's
\* part, width, height, tilePosX, tilePosY, tileWidth, tileHeight, version,
\* oldHash and hash, and with id -1 and broadcast false whatever di's are:
\* it equals di under operator== exactly when di has id -1 and is no
\* broadcast.
C2_CreateInverse ==
    (CreateRoundTripped /\ Homogeneous(tiles))
        => /\ pc = "reparsed"
           /\ Len(comb.tiles) = Len(tiles)
           /\ \A i \in 1..Len(tiles) :
                  /\ comb.tiles[i].part = tiles[i].part
                  /\ comb.tiles[i].width = tiles[i].width
                  /\ comb.tiles[i].height = tiles[i].height
                  /\ comb.tiles[i].tilePosX = tiles[i].tilePosX
                  /\ comb.tiles[i].tilePosY = tiles[i].tilePosY
                  /\ comb.tiles[i].tileWidth = tiles[i].tileWidth
                  /\ comb.tiles[i].tileHeight = tiles[i].tileHeight
                  /\ comb.tiles[i].ver = tiles[i].ver
                  /\ comb.tiles[i].oldHash = tiles[i].oldHash
                  /\ comb.tiles[i].hash = tiles[i].hash
                  /\ comb.tiles[i].id = -1
                  /\ comb.tiles[i].broadcast = FALSE
                  /\ Equals(comb.tiles[i], tiles[i])
                         <=> (tiles[i].id = -1 /\ ~tiles[i].broadcast)

C2_Witness ==
    /\ pc = "reparsed"
    /\ Len(tiles) = 2
    /\ Homogeneous(tiles)
    /\ tiles[1].id = 7
    /\ tiles[2].hash = 130
    /\ tiles[2].ver = -1
    /\ comb.tiles[2].hash = 130
    /\ comb.tiles[1].id = -1

\* The constructor of TileCombined was called and has returned or thrown.
Constructed ==
    pc \in {"created", "failed", "parsed", "reparsed", "rejected"}
    /\ args # Null

Succeeded == pc \in {"created", "parsed", "reparsed"}

Count(list) == Len(StringTokenizer(list))

PositionCountsAgree(a) == Count(a.tilePositionsX) = Count(a.tilePositionsY)

OptionalCountsAgree(a) ==
    \A list \in {a.imgSizes, a.vers, a.oldHashes, a.hashes} :
        list = <<>> \/ Count(list) = Count(a.tilePositionsX)

AllElements(list, P(_)) ==
    \A i \in 1..Count(list) : P(StringTokenizer(list)[i])

AllNumeric(a) ==
    /\ \A list \in {a.tilePositionsX, a.tilePositionsY, a.imgSizes, a.vers} :
           AllElements(list, LAMBDA e : stringToInteger(e).ok)
    /\ \A list \in {a.oldHashes, a.hashes} :
           AllElements(list, LAMBDA e : stringToUInt64(e).ok)

ScalarsValid(a) ==
    /\ a.part >= 0
    /\ a.width > 0
    /\ a.height > 0
    /\ a.tileWidth > 0
    /\ a.tileHeight > 0

NoneNegative(a) ==
    \A list \in {a.tilePositionsX, a.tilePositionsY, a.imgSizes} :
        AllElements(list, LAMBDA e : stringToInteger(e).value >= 0)

\* The batch has one tile per position, in list order.
OneTilePerPosition(c, a) ==
    /\ Len(c.tiles) = Count(a.tilePositionsX)
    /\ \A i \in 1..Len(c.tiles) :
           /\ c.tiles[i].tilePosX
                  = stringToInteger(StringTokenizer(a.tilePositionsX)[i]).value
           /\ c.tiles[i].tilePosY
                  = stringToInteger(StringTokenizer(a.tilePositionsY)[i]).value

\* C4 as stated: the constructor fails when the position lists differ in
\* length or a non-empty imgsize, ver, oldhash or hash list has another
\* length than the position lists; when all counts agree and every element
\* is numeric (the scalar fields being valid) it succeeds with one tile per
\* position, in list order.
C4_CardinalityOnly ==
    Constructed
        => /\ ~(PositionCountsAgree(args) /\ OptionalCountsAgree(args))
                  => (~Succeeded /\ comb = Null)
           /\ (/\ ScalarsValid(args)
               /\ PositionCountsAgree(args)
               /\ OptionalCountsAgree(args)
               /\ AllNumeric(args))
                  => (Succeeded /\ OneTilePerPosition(comb, args))

\* C4 amended: the constructor fails when the position lists differ in
\* length or a non-empty imgsize, ver, oldhash or hash list has another
\* length than the position lists; when the scalar fields are valid, all
\* counts agree, every element is numeric and no tileposx, tileposy or
\* imgsize element is negative, it succeeds with one tile per position, in
\* list order.
C4_Cardinality ==
    Constructed
        => /\ ~(PositionCountsAgree(args) /\ OptionalCountsAgree(args))
                  => (~Succeeded /\ comb = Null)
           /\ (/\ ScalarsValid(args)
               /\ PositionCountsAgree(args)
               /\ OptionalCountsAgree(args)
               /\ AllNumeric(args)
               /\ NoneNegative(args))
                  => (Succeeded /\ OneTilePerPosition(comb, args))

C4_Witness ==
    /\ pc = "rejected"
    /\ args # Null
    /\ ScalarsValid(args)
    /\ Count(args.tilePositionsX) = 2
    /\ Count(args.tilePositionsY) = 2
    /\ Count(args.hashes) = 1
    /\ exc = UnequalNumberOfTiles

\* C5 as stated: create fails when a tile of its input differs from
\* another in part, width, height, tileWidth or tileHeight.
C5_HeterogeneousRejected ==
    (pc \in {"created", "failed"} /\ ~Homogeneous(tiles))
        => (pc = "failed" /\ comb = Null)

\* C5 amended: create never checks that its input tiles share their
\* geometry: for every non-empty vector of valid tiles it returns a batch of
\* as many tiles, each with the part, width, height, tileWidth and
\* tileHeight of the first input tile and the position of its own input
\* tile.
C5_FirstTileGeometry ==
    pc \in {"created", "failed"}
        => /\ pc = "created"
           /\ Len(comb.tiles) = Len(tiles)
           /\ \A i \in 1..Len(tiles) :
                  /\ comb.tiles[i].part = tiles[1].part
                  /\ comb.tiles[i].width = tiles[1].width
                  /\ comb.tiles[i].height = tiles[1].height
                  /\ comb.tiles[i].tileWidth = tiles[1].tileWidth
                  /\ comb.tiles[i].tileHeight = tiles[1].tileHeight
                  /\ comb.tiles[i].tilePosX = tiles[i].tilePosX
                  /\ comb.tiles[i].tilePosY = tiles[i].tilePosY

C5_Witness ==
    /\ pc = "created"
    /\ Len(tiles) = 2
    /\ tiles[1].part # tiles[2].part
    /\ comb.tiles[2].part = tiles[1].part
    /\ comb.tiles[2].tilePosX = tiles[2].tilePosX

\* C7: for every batch b of N >= 0 tiles built by parse or create,
\* parse(b.serialize()) succeeds with N tiles, the i-th with the tilePosX,
\* tilePosY, version, oldHash and hash of the i-th tile of b.
C7_BatchRoundTrip ==
    (pc \in {"reparsed", "rejected"} /\ origin # Null)
        => /\ pc = "reparsed"
           /\ Len(comb.tiles) = Len(origin.tiles)
           /\ \A i \in 1..Len(origin.tiles) :
                  /\ comb.tiles[i].tilePosX = origin.tiles[i].tilePosX
                  /\ comb.tiles[i].tilePosY = origin.tiles[i].tilePosY
                  /\ comb.tiles[i].ver = origin.tiles[i].ver
                  /\ comb.tiles[i].oldHash = origin.tiles[i].oldHash
                  /\ comb.tiles[i].hash = origin.tiles[i].hash

C7_Witness ==
    /\ pc = "reparsed"
    /\ tiles = <<>>
    /\ origin.id = 7
    /\ Len(origin.tiles) = 2
    /\ origin.tiles[1].ver = -1
    /\ origin.tiles[2].imgSize = 25
    /\ origin.tiles[2].tilePosX = 10
    /\ origin.tiles[2].oldHash = 130
    /\ comb.tiles[2].oldHash = 130

\* The texts joined by one comma between consecutive texts.
RECURSIVE Join(_)
Join(texts) ==
    IF Len(texts) = 0 THEN <<>>
    ELSE IF Len(texts) = 1 THEN texts[1]
    ELSE texts[1] \o <<",">> \o Join(Tail(texts))

\* The text C10 describes, after the prefix.
Joined(c) ==
    <<" ", "p", "a", "r", "t", "=">> \o IntToStr(c.part)
    \o <<" ", "w", "i", "d", "t", "h", "=">> \o IntToStr(c.width)
    \o <<" ", "h", "e", "i", "g", "h", "t", "=">> \o IntToStr(c.height)
    \o <<" ", "t", "i", "l", "e", "p", "o", "s", "x", "=">> \o Join(Each(c.tiles, LAMBDA t : IntToStr(t.tilePosX)))
    \o <<" ", "t", "i", "l", "e", "p", "o", "s", "y", "=">> \o Join(Each(c.tiles, LAMBDA t : IntToStr(t.tilePosY)))
    \o <<" ", "i", "m", "g", "s", "i", "z", "e", "=">> \o Join(Each(c.tiles, LAMBDA t : IntToStr(t.imgSize)))
    \o <<" ", "t", "i", "l", "e", "w", "i", "d", "t", "h", "=">> \o IntToStr(c.tileWidth)
    \o <<" ", "t", "i", "l", "e", "h", "e", "i", "g", "h", "t", "=">> \o IntToStr(c.tileHeight)
    \o <<" ", "v", "e", "r", "=">> \o Join(Each(c.tiles, LAMBDA t : IntToStr(t.ver)))
    \o <<" ", "o", "l", "d", "h", "a", "s", "h", "=">> \o Join(Each(c.tiles, LAMBDA t : NatToStr(t.oldHash)))
    \o <<" ", "h", "a", "s", "h", "=">> \o Join(Each(c.tiles, LAMBDA t : NatToStr(t.hash)))
    \o (IF c.id >= 0 THEN <<" ", "i", "d", "=">> \o IntToStr(c.id) ELSE <<>>)

\* C10 as stated: for every batch, of zero tiles too, serialize returns the
\* prefix, then each key with its '=' and, for the six lists, the tiles'
\* values with one comma between consecutive values and none after the
\* last, then id if it is not negative.
C10_CommaJoined ==
    pc = "serialized"
        => \E prefix \in CombinedPrefixVals : wire = prefix \o Joined(origin)

(***************************************************************************)
(* Properties of the geometry predicates, under SpecGeometry.              *)
(***************************************************************************)
\* C8: a.isAdjacent(b) is true exactly when a and b share part, width,
\* height, tileWidth and tileHeight and their boxes meet, edges and corners
\* included; isAdjacent and intersects do not depend on the order of a, b.
C8_AdjacentInclusiveSymmetric ==
    /\ (pc = "called" /\ ret.op = "isAdjacent")
           => /\ ret.ab <=>
                     /\ desc.part = other.part
                     /\ desc.width = other.width
                     /\ desc.height = other.height
                     /\ desc.tileWidth = other.tileWidth
                     /\ desc.tileHeight = other.tileHeight
                     /\ other.tilePosX + other.tileWidth >= desc.tilePosX
                     /\ other.tilePosX <= desc.tilePosX + desc.tileWidth
                     /\ other.tilePosY + other.tileHeight >= desc.tilePosY
                     /\ other.tilePosY <= desc.tilePosY + desc.tileHeight
              /\ ret.ab = ret.ba
    /\ (pc = "called" /\ ret.op = "intersects") => ret.ab = ret.ba

C8_Witness ==
    /\ pc = "called"
    /\ ret.op = "isAdjacent"
    /\ ret.ab
    /\ ret.ba
    /\ other.tilePosX = desc.tilePosX + desc.tileWidth
    /\ other.tilePosY = desc.tilePosY + desc.tileHeight

====
